---- MODULE Spec2Model ----
(***************************************************************************)
(* Model of the chat relay of src/server.js: the room table `rooms`, the   *)
(* reverse index `socketToUserMap`, the socket.io room groups, and one     *)
(* action per inbound event handler.  Handlers run to completion one at a  *)
(* time (single-threaded event loop), so each handler is one atomic step.  *)
(*                                                                         *)
(* Strings whose characters matter (usernames) are sequences of one-       *)
(* character strings; JavaScript values that are only passed around are    *)
(* TLA+ strings ("true", "false", "undefined", "null", "" for falsy).      *)
(***************************************************************************)
EXTENDS Naturals, Integers, Sequences, FiniteSets, TLC

VARIABLES
    rooms,            \* const rooms: room name -> [users, messages]
    socketToUserMap,  \* const socketToUserMap: socket id -> [username, room]
    groups,           \* socket.io adapter: room name -> set of joined sockets
    sockets,          \* life cycle of each connection: "new", "open", "closed"
    now,              \* the reading of Date.now()
    crashed,          \* an uncaught TypeError ended the process
    ev,               \* the inbound event processed by the last step
    outbox,           \* the outbound events emitted by the last step, in order
    vInput,           \* validation development: the raw username
    vName,            \* validation development: the standardized username
    vResult,          \* validation development: validateUsername's result
    vpc               \* validation development: position

chatVars == <<rooms, socketToUserMap, groups, sockets, now, crashed, ev, outbox>>
valVars == <<vInput, vName, vResult, vpc>>
vars == <<rooms, socketToUserMap, groups, sockets, now, crashed, ev, outbox,
          vInput, vName, vResult, vpc>>

----------------------------------------------------------------------------
(* Bounds *)

MaxHist == 3          \* records the model lets the histories hold in total
MaxClock == 1         \* last reading of the clock
MaxLen == 5           \* longest raw username of the validation development
TicksPerSecond == 2   \* clock readings that share one toLocaleTimeString

(* Program constants *)

MinLength == 5
MinNumbers == 2
DefaultRoom == "public"

LengthMsg == "Username must be at least 5 characters long."
NumbersMsg == "Username must contain at least 2 numbers."
SpecialMsg == "Username must contain at least 1 special character (e.g., !@#$%)."
TakenMsg == "Username already taken in this room."
null == "null"
undefined == "undefined"

----------------------------------------------------------------------------
(* Characters and strings *)

DigitChars == {"0", "1", "2", "3", "4", "5", "6", "7", "8", "9"}

SpecialChars ==
    {"!", "@", "#", "$", "%", "^", "&", "*", "(", ")", "_", "+", "-", "=",
     "[", "]", "{", "}", ";", "'", ":", "\"", "\\", "|", ",", ".", "<", ">",
     "?", "backtick", "~"}      \* "backtick" stands for the grave accent

WhiteSpace == {" "}

UpperToLower ==
    [ch \in {"A", "B", "L", "O"} |->
        CASE ch = "A" -> "a" [] ch = "B" -> "b" [] ch = "L" -> "l" [] ch = "O" -> "o"]

toLowerCase(s) ==
    [i \in 1..Len(s) |-> IF s[i] \in DOMAIN UpperToLower THEN UpperToLower[s[i]] ELSE s[i]]

RECURSIVE trimStart(_)
trimStart(s) ==
    IF s # <<>> /\ Head(s) \in WhiteSpace THEN trimStart(Tail(s)) ELSE s

RECURSIVE trimEnd(_)
trimEnd(s) ==
    IF s # <<>> /\ s[Len(s)] \in WhiteSpace THEN trimEnd(SubSeq(s, 1, Len(s) - 1)) ELSE s

trim(s) == trimEnd(trimStart(s))

standardize(username) == toLowerCase(trim(username))

RECURSIVE numberCount(_)
numberCount(s) ==
    IF s = <<>> THEN 0
    ELSE (IF Head(s) \in DigitChars THEN 1 ELSE 0) + numberCount(Tail(s))

specialCharTest(s) == \E i \in 1..Len(s) : s[i] \in SpecialChars

validateUsername_digitsFirst(username) ==
    IF numberCount(username) < MinNumbers THEN NumbersMsg
    ELSE IF Len(username) < MinLength THEN LengthMsg
    ELSE IF ~specialCharTest(username) THEN SpecialMsg
    ELSE null

validateUsername(username) ==
    IF Len(username) < MinLength THEN LengthMsg
    ELSE IF numberCount(username) < MinNumbers THEN NumbersMsg
    ELSE IF ~specialCharTest(username) THEN SpecialMsg
    ELSE null

----------------------------------------------------------------------------
(* Inputs *)

Conns == {"s1", "s2"}
RoomNames == {"public", "team"}
RoomIds == {"", "team"}                 \* "" is an absent (falsy) roomId

AlRaw == <<" ", "A", "L", "1", "2", "!">>   \* valid once standardized
Bo == <<"b", "o", "3", "4", "#">>           \* valid
Short == <<"b", "o", "1">>                  \* too short

RawNames == {AlRaw, Bo, Short}

NoData == [defined |-> FALSE, username |-> "", message |-> "", time |-> ""]
Hello == [defined |-> TRUE, username |-> "al", message |-> "hi", time |-> "10:00"]

MessageDatas ==
    {NoData, Hello,
     [Hello EXCEPT !.username = ""],
     [Hello EXCEPT !.message = ""],
     [Hello EXCEPT !.time = ""]}

Alphabet == {"a", "B", "1", "!", "/", " "}
RawStrings == UNION {[1..n -> Alphabet] : n \in 0..MaxLen}

----------------------------------------------------------------------------
(* Helpers of the handlers *)

resolve(roomId) == IF roomId = "" THEN DefaultRoom ELSE roomId

ObjectValues(users) == {users[k] : k \in DOMAIN users}

toLocaleTimeString(t) == t \div TicksPerSecond

systemId(t, c) == <<"system", t, c>>
chatId(t, c) == <<t, c>>

JoinedText == <<" joined the chat">>
LeftText == <<" left the chat">>

systemMessageData(text, t, c) ==
    [message |-> text, time |-> toLocaleTimeString(t),
     messageId |-> systemId(t, c), type |-> "system"]

socketEmit(c, event, payload) ==
    [event |-> event, room |-> "", to |-> {c}, payload |-> payload]

ioTo(g, room, event, payload) ==
    [event |-> event, room |-> room, to |-> g[room], payload |-> payload]

socketTo_all(g, c, room, event, payload) ==
    [event |-> event, room |-> room, to |-> g[room], payload |-> payload]

socketTo(g, c, room, event, payload) ==
    [event |-> event, room |-> room, to |-> g[room] \ {c}, payload |-> payload]

Event(kind, c, roomId, username, messageData) ==
    [kind |-> kind, socket |-> c, roomId |-> roomId, username |-> username,
     messageData |-> messageData]

----------------------------------------------------------------------------
(* Registry and transport helpers *)

roomIsLive_exists(rs, room) ==
    IF room \in DOMAIN rs THEN "true" ELSE undefined

roomIsLive(rs, room) ==
    IF room \notin DOMAIN rs THEN undefined
    ELSE IF Cardinality(DOMAIN rs[room].users) > 0 THEN "true" ELSE "false"

usernameTaken_anyRoom(rs, room, std) ==
    \E r \in DOMAIN rs : std \in DOMAIN rs[r].users

usernameTaken(rs, room, std) ==
    room \in DOMAIN rs /\ std \in DOMAIN rs[room].users

isMember(rs, room, username) ==
    room \in DOMAIN rs /\ username \in DOMAIN rs[room].users

ensureRoom(rs, room) ==
    IF room \notin DOMAIN rs
    THEN [r \in DOMAIN rs \cup {room} |->
             IF r = room THEN [users |-> <<>>, messages |-> <<>>] ELSE rs[r]]
    ELSE rs

addUser(rs, room, std, c) ==
    [rs EXCEPT ![room].users =
        [k \in DOMAIN @ \cup {std} |->
            IF k = std THEN [socketId |-> c, username |-> std] ELSE @[k]]]

deleteUser(rs, room, std) ==
    [rs EXCEPT ![room].users = [k \in DOMAIN @ \ {std} |-> @[k]]]

pushMessage_front(rs, room, m) ==
    [rs EXCEPT ![room].messages = <<m>> \o @]

pushMessage(rs, room, m) ==
    [rs EXCEPT ![room].messages = Append(@, m)]

cleanUp_never(rs, room) == rs

cleanUp_everyRoom(rs, room) ==
    IF room \in DOMAIN rs /\ Cardinality(DOMAIN rs[room].users) = 0
    THEN [r \in DOMAIN rs \ {room} |-> rs[r]]
    ELSE rs

cleanUp(rs, room) ==
    IF room # DefaultRoom /\ room \in DOMAIN rs /\ Cardinality(DOMAIN rs[room].users) = 0
    THEN [r \in DOMAIN rs \ {room} |-> rs[r]]
    ELSE rs

setUser(m, c, std, room) ==
    [k \in DOMAIN m \cup {c} |-> IF k = c THEN [username |-> std, room |-> room] ELSE m[k]]

deleteSocket(m, c) == [k \in DOMAIN m \ {c} |-> m[k]]

socketJoin(g, c, room) == [g EXCEPT ![room] = @ \cup {c}]
socketLeave(g, c, room) == [g EXCEPT ![room] = @ \ {c}]
leaveAll(g, c) == [r \in DOMAIN g |-> g[r] \ {c}]

chatHistory_newestFirst(rs, room) ==
    LET m == rs[room].messages IN [i \in 1..Len(m) |-> m[Len(m) + 1 - i]]

chatHistory(rs, room) == rs[room].messages

validMessageData_noTime(md) ==
    md.defined /\ md.username # "" /\ md.message # ""

validMessageData(md) ==
    md.defined /\ md.username # "" /\ md.message # "" /\ md.time # ""

fullMessageData_noUserId(md, t, c) ==
    [username |-> md.username, message |-> md.message, time |-> md.time,
     messageId |-> chatId(t, c)]

fullMessageData(md, t, c) ==
    [username |-> md.username, message |-> md.message, time |-> md.time,
     userId |-> c, messageId |-> chatId(t, c)]

Alive(c) == ~crashed /\ sockets[c] = "open"

RECURSIVE stored(_, _)
stored(rs, names) ==
    IF names = {} THEN 0
    ELSE LET r == CHOOSE x \in names : TRUE
         IN  Len(rs[r].messages) + stored(rs, names \ {r})

HasSpace(rs) == stored(rs, DOMAIN rs) < MaxHist

----------------------------------------------------------------------------
(* Initial state: the module-level constants of the server *)

Init ==
    /\ rooms = [r \in {DefaultRoom} |-> [users |-> <<>>, messages |-> <<>>]]
    /\ socketToUserMap = <<>>
    /\ groups = [r \in RoomNames |-> {}]
    /\ sockets = [c \in Conns |-> "new"]
    /\ now = 0
    /\ crashed = FALSE
    /\ ev = Event("start", "", "", <<>>, NoData)
    /\ outbox = <<>>
    /\ vInput = <<>>
    /\ vName = <<>>
    /\ vResult = "none"
    /\ vpc = "off"

(* The clock advances between events *)
Tick ==
    /\ ~crashed
    /\ now < MaxClock
    /\ now' = now + 1
    /\ ev' = Event("tick", "", "", <<>>, NoData)
    /\ outbox' = <<>>
    /\ UNCHANGED <<rooms, socketToUserMap, groups, sockets, crashed>>
    /\ UNCHANGED valVars

connection(c) ==
    /\ ~crashed
    /\ sockets[c] = "new"
    /\ sockets' = [sockets EXCEPT ![c] = "open"]
    /\ ev' = Event("connection", c, "", <<>>, NoData)
    /\ outbox' = <<>>
    /\ UNCHANGED <<rooms, socketToUserMap, groups, now, crashed>>
    /\ UNCHANGED valVars

check_room(c, roomId) ==
    /\ Alive(c)
    /\ LET room == resolve(roomId)
           roomExists == roomIsLive(rooms, room)
       IN  outbox' = <<socketEmit(c, "callback", roomExists)>>
    /\ ev' = Event("check_room", c, roomId, <<>>, NoData)
    /\ UNCHANGED <<rooms, socketToUserMap, groups, sockets, now, crashed>>
    /\ UNCHANGED valVars

joinError_toAll(c, msg) ==
    /\ outbox' = <<[event |-> "join_error", room |-> "",
                    to |-> {x \in Conns : sockets[x] = "open"}, payload |-> msg]>>
    /\ UNCHANGED <<rooms, socketToUserMap, groups>>

joinError(c, msg) ==
    /\ outbox' = <<socketEmit(c, "join_error", msg)>>
    /\ UNCHANGED <<rooms, socketToUserMap, groups>>

joinAccepted_listBeforeInsert(c, username, room, std) ==
    LET g1 == socketJoin(groups, c, room)
        rs0 == ensureRoom(rooms, room)
        rs1 == addUser(rs0, room, std, c)
        history == chatHistory(rs1, room)
        userList == ObjectValues(rs0[room].users)
        msg == systemMessageData(username \o JoinedText, now, c)
        rs2 == pushMessage(rs1, room, msg)
    IN  /\ HasSpace(rooms)
        /\ groups' = g1
        /\ rooms' = rs2
        /\ socketToUserMap' = setUser(socketToUserMap, c, std, room)
        /\ outbox' = <<socketEmit(c, "chat_history", history),
                       ioTo(g1, room, "user_list", userList),
                       ioTo(g1, room, "system_message", msg),
                       socketEmit(c, "join_success", "")>>

joinAccepted(c, username, room, std) ==
    LET g1 == socketJoin(groups, c, room)
        rs1 == addUser(ensureRoom(rooms, room), room, std, c)
        history == chatHistory(rs1, room)
        userList == ObjectValues(rs1[room].users)
        msg == systemMessageData(username \o JoinedText, now, c)
        rs2 == pushMessage(rs1, room, msg)
    IN  /\ HasSpace(rooms)        \* bound on the history
        /\ groups' = g1
        /\ rooms' = rs2
        /\ socketToUserMap' = setUser(socketToUserMap, c, std, room)
        /\ outbox' = <<socketEmit(c, "chat_history", history),
                       ioTo(g1, room, "user_list", userList),
                       ioTo(g1, room, "system_message", msg),
                       socketEmit(c, "join_success", "")>>

join_room(c, username, roomId) ==
    /\ Alive(c)
    /\ LET room == resolve(roomId)
           standardizedUsername == standardize(username)
           validationError == validateUsername(standardizedUsername)
       IN  IF validationError # null
           THEN joinError(c, validationError)
           ELSE IF usernameTaken(rooms, room, standardizedUsername)
           THEN joinError(c, TakenMsg)
           ELSE joinAccepted(c, username, room, standardizedUsername)
    /\ ev' = Event("join_room", c, roomId, username, NoData)
    /\ UNCHANGED <<sockets, now, crashed>>
    /\ UNCHANGED valVars

send_message(c, messageData, roomId) ==
    /\ Alive(c)
    /\ LET room == resolve(roomId)
           msg == fullMessageData(messageData, now, c)
       IN  IF validMessageData(messageData)
           THEN IF room \notin DOMAIN rooms
                THEN \* rooms[room] is undefined: reading .messages throws
                     /\ crashed' = TRUE
                     /\ outbox' = <<>>
                     /\ UNCHANGED rooms
                ELSE /\ HasSpace(rooms)       \* bound on the history
                     /\ rooms' = pushMessage(rooms, room, msg)
                     /\ outbox' = <<ioTo(groups, room, "receive_message", msg)>>
                     /\ UNCHANGED crashed
           ELSE /\ outbox' = <<>>
                /\ UNCHANGED <<rooms, crashed>>
    /\ ev' = Event("send_message", c, roomId, <<>>, messageData)
    /\ UNCHANGED <<socketToUserMap, groups, sockets, now>>
    /\ UNCHANGED valVars

typing(c, roomId) ==
    /\ Alive(c)
    /\ LET room == resolve(roomId)
       IN  IF c \in DOMAIN socketToUserMap /\ room \in DOMAIN rooms
           THEN outbox' = <<socketTo(groups, c, room, "user_typing",
                               [socketId |-> c,
                                username |-> socketToUserMap[c].username])>>
           ELSE outbox' = <<>>
    /\ ev' = Event("typing", c, roomId, <<>>, NoData)
    /\ UNCHANGED <<rooms, socketToUserMap, groups, sockets, now, crashed>>
    /\ UNCHANGED valVars

leave_room(c, roomId) ==
    /\ Alive(c)
    /\ LET room == resolve(roomId)
       IN  IF /\ c \in DOMAIN socketToUserMap
              /\ isMember(rooms, room, socketToUserMap[c].username)
           THEN LET userInfo == socketToUserMap[c]
                    msg == systemMessageData(userInfo.username \o LeftText, now, c)
                    rs1 == pushMessage(rooms, room, msg)
                    rs2 == deleteUser(rs1, room, userInfo.username)
                    g1 == socketLeave(groups, c, room)
                IN  /\ HasSpace(rooms)        \* bound on the history
                    /\ rooms' = cleanUp(rs2, room)
                    /\ socketToUserMap' = deleteSocket(socketToUserMap, c)
                    /\ groups' = g1
                    /\ outbox' = <<ioTo(groups, room, "system_message", msg),
                                   ioTo(g1, room, "user_list",
                                        ObjectValues(rs2[room].users))>>
           ELSE /\ outbox' = <<>>
                /\ UNCHANGED <<rooms, socketToUserMap, groups>>
    /\ ev' = Event("leave_room", c, roomId, <<>>, NoData)
    /\ UNCHANGED <<sockets, now, crashed>>
    /\ UNCHANGED valVars

(* socket.io takes the socket out of every room before it emits            *)
(* 'disconnect'; the handler then runs on the closed socket.               *)
disconnect(c) ==
    /\ Alive(c)
    /\ LET g1 == leaveAll(groups, c)
       IN  /\ groups' = g1
           /\ IF c \in DOMAIN socketToUserMap
              THEN LET userInfo == socketToUserMap[c]
                       room == userInfo.room
                   IN  IF isMember(rooms, room, userInfo.username)
                       THEN LET msg == systemMessageData(userInfo.username \o LeftText, now, c)
                                rs1 == pushMessage(rooms, room, msg)
                                rs2 == deleteUser(rs1, room, userInfo.username)
                            IN  /\ HasSpace(rooms)    \* bound on the history
                                /\ rooms' = cleanUp(rs2, room)
                                /\ outbox' = <<socketTo(g1, c, room, "system_message", msg),
                                               ioTo(g1, room, "user_list",
                                                    ObjectValues(rs2[room].users))>>
                       ELSE /\ outbox' = <<>>
                            /\ UNCHANGED rooms
              ELSE /\ outbox' = <<>>
                   /\ UNCHANGED rooms
    /\ socketToUserMap' = deleteSocket(socketToUserMap, c)
    /\ sockets' = [sockets EXCEPT ![c] = "closed"]
    /\ ev' = Event("disconnect", c, "", <<>>, NoData)
    /\ UNCHANGED <<now, crashed>>
    /\ UNCHANGED valVars

Next ==
    \/ Tick
    \/ \E c \in Conns : connection(c)
    \/ \E c \in Conns, roomId \in RoomIds : check_room(c, roomId)
    \/ \E c \in Conns, username \in RawNames, roomId \in RoomIds :
           join_room(c, username, roomId)
    \/ \E c \in Conns, messageData \in MessageDatas, roomId \in RoomIds :
           send_message(c, messageData, roomId)
    \/ \E c \in Conns, roomId \in RoomIds : typing(c, roomId)
    \/ \E c \in Conns, roomId \in RoomIds : leave_room(c, roomId)
    \/ \E c \in Conns : disconnect(c)

Spec == Init /\ [][Next]_vars

----------------------------------------------------------------------------
(* Validation development: validateUsername applied to every standardized  *)
(* raw string of at most MaxLen characters over Alphabet.                  *)

InitV ==
    /\ rooms = [r \in {DefaultRoom} |-> [users |-> <<>>, messages |-> <<>>]]
    /\ socketToUserMap = <<>>
    /\ groups = [r \in RoomNames |-> {}]
    /\ sockets = [c \in Conns |-> "new"]
    /\ now = 0
    /\ crashed = FALSE
    /\ ev = Event("start", "", "", <<>>, NoData)
    /\ outbox = <<>>
    /\ vInput \in RawStrings
    /\ vName = <<>>
    /\ vResult = "none"
    /\ vpc = "raw"

standardizeStep ==
    /\ vpc = "raw"
    /\ vName' = standardize(vInput)
    /\ vpc' = "standardized"
    /\ UNCHANGED <<vInput, vResult>>
    /\ UNCHANGED chatVars

validateStep ==
    /\ vpc = "standardized"
    /\ vResult' = validateUsername(vName)
    /\ vpc' = "validated"
    /\ UNCHANGED <<vInput, vName>>
    /\ UNCHANGED chatVars

NextV == standardizeStep \/ validateStep

SpecV == InitV /\ [][NextV]_vars

----------------------------------------------------------------------------
(* Vocabulary of the properties *)

IsSystem(rec) == "type" \in DOMAIN rec

\* the member entries (room, username) bound to connection c
BoundTo(c) ==
    {ru \in (DOMAIN rooms) \X UNION {DOMAIN rooms[r].users : r \in DOMAIN rooms} :
        /\ ru[2] \in DOMAIN rooms[ru[1]].users
        /\ rooms[ru[1]].users[ru[2]].socketId = c}

IsJoinError(ob, c, msg) ==
    /\ Len(ob) = 1
    /\ ob[1].event = "join_error"
    /\ ob[1].to = {c}
    /\ ob[1].payload = msg

EventNames(ob) == [i \in 1..Len(ob) |-> ob[i].event]

JoinEvents == <<"chat_history", "user_list", "system_message", "join_success">>

\* the last step was a join_room that was accepted
JoinedNow == ev.kind = "join_room" /\ EventNames(outbox) = JoinEvents

\* the last step was a leave_room or disconnect that removed a member of room r
DepartedNow(r) ==
    /\ ev.kind \in {"leave_room", "disconnect"}
    /\ outbox # <<>>
    /\ outbox[1].room = r

----------------------------------------------------------------------------
(* C1: in every reachable state a room's member map holds an entry u bound *)
(* to connection c exactly when the reverse index maps c to (u, room); so  *)
(* a connection is bound in at most one member entry.                      *)
C1_RegistryMatchesIndex ==
    /\ \A r \in DOMAIN rooms : \A u \in DOMAIN rooms[r].users :
          LET c == rooms[r].users[u].socketId
          IN  /\ c \in DOMAIN socketToUserMap
              /\ socketToUserMap[c] = [username |-> u, room |-> r]
    /\ \A c \in DOMAIN socketToUserMap :
          LET s == socketToUserMap[c]
          IN  /\ s.room \in DOMAIN rooms
              /\ s.username \in DOMAIN rooms[s.room].users
              /\ rooms[s.room].users[s.username].socketId = c
    /\ \A c \in Conns : Cardinality(BoundTo(c)) <= 1

(* C2: a join_room with a well-formed username is answered with 'Username  *)
(* already taken in this room.' exactly when the standardized username is  *)
(* a member of the resolved room, whichever connection asks; membership of *)
(* the same username in another room does not reject it.                   *)
C2_UniquePerRoom ==
    [][\A c \in Conns, n \in RawNames, rid \in RoomIds :
          (/\ ev' = Event("join_room", c, rid, n, NoData)
           /\ validateUsername(standardize(n)) = null)
          => LET room == resolve(rid)
                 member == /\ room \in DOMAIN rooms
                           /\ standardize(n) \in DOMAIN rooms[room].users
             IN  /\ member => IsJoinError(outbox', c, TakenMsg)
                 /\ ~member => EventNames(outbox') = JoinEvents]_vars

\* a join was just rejected as taken while one standardized username is a
\* member of two rooms through two connections, each with its own session
C2_Witness ==
    /\ ev.kind = "join_room"
    /\ IsJoinError(outbox, ev.socket, TakenMsg)
    /\ \E u \in {standardize(n) : n \in RawNames}, c1, c2 \in Conns :
          /\ c1 # c2
          /\ BoundTo(c1) = {<<"public", u>>}
          /\ BoundTo(c2) = {<<"team", u>>}
          /\ socketToUserMap[c1] = [username |-> u, room |-> "public"]
          /\ socketToUserMap[c2] = [username |-> u, room |-> "team"]

(* C3: once disconnect has been processed for a connection, the reverse    *)
(* index has no entry for it and no room's member map holds an entry bound *)
(* to it.                                                                  *)
C3_DisconnectDestroysSession ==
    \A c \in Conns :
        sockets[c] = "closed" => (c \notin DOMAIN socketToUserMap /\ BoundTo(c) = {})

(* C4: right after the last member left a non-default room (leave_room or  *)
(* disconnect), check_room for that room replies false, and a join_room    *)
(* with that room name receives an empty chat_history.                     *)
C4_EmptyRoomCleanup ==
    [][\A r \in RoomNames \ {DefaultRoom} :
          (DepartedNow(r) /\ (r \in DOMAIN rooms => DOMAIN rooms[r].users = {}))
          => /\ (ev'.kind = "check_room" /\ resolve(ev'.roomId) = r)
                    => outbox'[1].payload = "false"
             /\ (ev'.kind = "join_room" /\ resolve(ev'.roomId) = r
                   /\ EventNames(outbox') = JoinEvents)
                    => outbox'[1].payload = <<>>]_vars

(* C5: no inbound event raises a fault; in particular a send_message with  *)
(* valid messageData naming a room absent from the registry does not.      *)
C5_NoFault == ~crashed

(* C6: an accepted join_room delivers to the joiner, as chat_history, just *)
(* the records the room's history held before the join, in their order;    *)
(* the join's own system record is appended after them and reaches the     *)
(* joiner by the system_message broadcast that follows.                    *)
C6_HistoryOrdering ==
    [][(ev'.kind = "join_room" /\ EventNames(outbox') = JoinEvents)
          => LET room == resolve(ev'.roomId)
                 c == ev'.socket
                 before == IF room \in DOMAIN rooms THEN rooms[room].messages ELSE <<>>
                 after == rooms'[room].messages
             IN  /\ outbox'[1].to = {c}
                 /\ outbox'[1].payload = before
                 /\ Len(after) = Len(before) + 1
                 /\ SubSeq(after, 1, Len(before)) = before
                 /\ IsSystem(after[Len(after)])
                 /\ after[Len(after)].message = ev'.username \o JoinedText
                 /\ outbox'[3].payload = after[Len(after)]
                 /\ c \in outbox'[3].to]_vars

\* a join was just accepted into a room that already held a chat record
\* after a system record
C6_Witness ==
    /\ JoinedNow
    /\ Len(outbox[1].payload) = 2
    /\ IsSystem(outbox[1].payload[1])
    /\ ~IsSystem(outbox[1].payload[2])
    /\ Len(rooms[resolve(ev.roomId)].messages) = 3

(* C7: in every reachable state a room is in the registry exactly when it  *)
(* is the default room or its member map has at least one entry.           *)
C7_RoomExistence ==
    \A r \in RoomNames :
        r \in DOMAIN rooms
          <=> (r = DefaultRoom \/ (r \in DOMAIN rooms /\ DOMAIN rooms[r].users # {}))

\* the last member of room team just left and the room is gone
C7_Witness ==
    /\ DepartedNow("team")
    /\ "team" \notin DOMAIN rooms
    /\ rooms[DefaultRoom].users # <<>>

(* C8: the default room is in the registry in every reachable state; while *)
(* it has no members check_room on it replies false, and a join_room on it *)
(* with a well-formed username is accepted.                                *)
C8_DefaultRoomPermanent ==
    /\ [](DefaultRoom \in DOMAIN rooms)
    /\ [][(DefaultRoom \in DOMAIN rooms /\ DOMAIN rooms[DefaultRoom].users = {})
            => /\ (ev'.kind = "check_room" /\ resolve(ev'.roomId) = DefaultRoom)
                    => outbox'[1].payload = "false"
               /\ (ev'.kind = "join_room" /\ resolve(ev'.roomId) = DefaultRoom
                     /\ validateUsername(standardize(ev'.username)) = null)
                    => /\ EventNames(outbox') = JoinEvents
                       /\ DOMAIN rooms'[DefaultRoom].users = {standardize(ev'.username)}]_vars

\* a join was just accepted into the default room after its only member had left
C8_Witness ==
    /\ JoinedNow
    /\ resolve(ev.roomId) = DefaultRoom
    /\ Cardinality(DOMAIN rooms[DefaultRoom].users) = 1
    /\ Len(rooms[DefaultRoom].messages) = 3
    /\ IsSystem(rooms[DefaultRoom].messages[2])
    /\ \E n \in RawNames :
          rooms[DefaultRoom].messages[2].message = standardize(n) \o LeftText

(* C9: a join_room that fails the format check or names a taken username   *)
(* leaves the registry, the reverse index and the transport groups as they *)
(* were and emits one join_error, to the requesting connection only.       *)
C9_RejectedJoinChangesNothing ==
    [][\A c \in Conns, n \in RawNames, rid \in RoomIds :
          (/\ ev' = Event("join_room", c, rid, n, NoData)
           /\ \/ validateUsername(standardize(n)) # null
              \/ /\ resolve(rid) \in DOMAIN rooms
                 /\ standardize(n) \in DOMAIN rooms[resolve(rid)].users)
          => /\ rooms' = rooms
             /\ socketToUserMap' = socketToUserMap
             /\ groups' = groups
             /\ Len(outbox') = 1
             /\ outbox'[1].event = "join_error"
             /\ outbox'[1].to = {c}]_vars

\* a join naming a room that does not exist was just rejected for its format
\* while another connection is open, and the room still does not exist
C9_Witness ==
    /\ ev.kind = "join_room"
    /\ IsJoinError(outbox, ev.socket, LengthMsg)
    /\ resolve(ev.roomId) \notin DOMAIN rooms
    /\ \A c \in Conns : sockets[c] = "open"
    /\ socketToUserMap # <<>>

(* C10: validateUsername reports the first failing condition in the order  *)
(* length, digits, special character: a standardized name shorter than 5   *)
(* gets the length message whatever else it holds; otherwise fewer than 2  *)
(* digits gets the digit message even with a special character; otherwise  *)
(* no special character gets the special-character message; otherwise the  *)
(* name passes.                                                            *)
C10_ValidationOrder ==
    vpc = "validated" =>
        LET digits == Cardinality({i \in 1..Len(vName) : vName[i] \in DigitChars})
            special == {i \in 1..Len(vName) : vName[i] \in SpecialChars} # {}
        IN  /\ Len(vName) < 5 => vResult = LengthMsg
            /\ (Len(vName) >= 5 /\ digits < 2) => vResult = NumbersMsg
            /\ (Len(vName) >= 5 /\ digits >= 2 /\ ~special) => vResult = SpecialMsg
            /\ (Len(vName) >= 5 /\ digits >= 2 /\ special) => vResult = null

\* a name that fails all three conditions was answered with the length message
C10_Witness ==
    /\ vpc = "validated"
    /\ Len(vName) < 5
    /\ Len(vName) > 0
    /\ \A i \in 1..Len(vName) : vName[i] \notin DigitChars \cup SpecialChars
    /\ vResult = LengthMsg

----------------------------------------------------------------------------
\* the member entries (room, username) of registry rs bound to connection c
BoundIn(rs, c) ==
    {ru \in (DOMAIN rs) \X UNION {DOMAIN rs[r].users : r \in DOMAIN rs} :
        /\ ru[2] \in DOMAIN rs[ru[1]].users
        /\ rs[ru[1]].users[ru[2]].socketId = c}

\* the member maps of registry rs, room by room
MemberMaps(rs) == [r \in DOMAIN rs |-> rs[r].users]

WellFormed(md) == md.defined /\ md.username # "" /\ md.message # "" /\ md.time # ""

(* C11: a send_message with valid messageData naming an existing room, sent *)
(* by any connection with or without a session there, appends exactly one   *)
(* record carrying the sender's connection identity and a server-assigned   *)
(* id to the end of that room's history, broadcasts it as receive_message   *)
(* to the room's transport group, and changes no member map and no          *)
(* reverse-index entry.                                                     *)
C11_SendIsPermissive ==
    [][(/\ ev'.kind = "send_message"
        /\ WellFormed(ev'.messageData)
        /\ resolve(ev'.roomId) \in DOMAIN rooms)
          => LET room == resolve(ev'.roomId)
                 c == ev'.socket
                 md == ev'.messageData
                 rec == [username |-> md.username, message |-> md.message,
                         time |-> md.time, userId |-> c, messageId |-> <<now, c>>]
             IN  /\ DOMAIN rooms' = DOMAIN rooms
                 /\ rooms'[room].messages = Append(rooms[room].messages, rec)
                 /\ \A r \in DOMAIN rooms \ {room} : rooms'[r] = rooms[r]
                 /\ MemberMaps(rooms') = MemberMaps(rooms)
                 /\ socketToUserMap' = socketToUserMap
                 /\ Len(outbox') = 1
                 /\ outbox'[1].event = "receive_message"
                 /\ outbox'[1].to = groups[room]
                 /\ outbox'[1].payload = rec]_vars

\* a connection without any session just posted into a room whose group
\* holds another connection
C11_Witness ==
    /\ ev.kind = "send_message"
    /\ Len(outbox) = 1
    /\ outbox[1].event = "receive_message"
    /\ ev.socket \notin DOMAIN socketToUserMap
    /\ BoundIn(rooms, ev.socket) = {}
    /\ outbox[1].to # {}
    /\ ev.socket \notin outbox[1].to
    /\ outbox[1].payload.userId = ev.socket

(* C12: a send_message whose messageData is missing, or has an empty        *)
(* username, an empty message or no time, changes no history and no other   *)
(* state and emits nothing.                                                 *)
C12_MalformedDropped ==
    [][(/\ ev'.kind = "send_message"
        /\ \/ ~ev'.messageData.defined
           \/ ev'.messageData.username = ""
           \/ ev'.messageData.message = ""
           \/ ev'.messageData.time = "")
          => /\ rooms' = rooms
             /\ socketToUserMap' = socketToUserMap
             /\ groups' = groups
             /\ sockets' = sockets
             /\ crashed' = crashed
             /\ outbox' = <<>>]_vars

\* a message without a time was just dropped although its room has listeners
C12_Witness ==
    /\ ev.kind = "send_message"
    /\ ev.messageData.defined
    /\ ev.messageData.username # ""
    /\ ev.messageData.message # ""
    /\ ev.messageData.time = ""
    /\ outbox = <<>>
    /\ ~crashed
    /\ groups[resolve(ev.roomId)] # {}

(* C13: a leave_room or disconnect processed for connection c never        *)
(* removes or alters a member entry bound to another connection and never   *)
(* removes another connection's reverse-index entry.                        *)
C13_DepartureTouchesOwnSessionOnly ==
    [][ev'.kind \in {"leave_room", "disconnect"}
          => \A d \in Conns \ {ev'.socket} :
                /\ BoundIn(rooms', d) = BoundIn(rooms, d)
                /\ d \in DOMAIN socketToUserMap
                      => /\ d \in DOMAIN socketToUserMap'
                         /\ socketToUserMap'[d] = socketToUserMap[d]]_vars

(* C14: in every reachable state an open connection is in a room's          *)
(* transport group exactly when that room's member map holds an entry bound *)
(* to it.                                                                   *)
C14_GroupsMatchRegistry ==
    \A c \in Conns, r \in RoomNames :
        sockets[c] = "open"
          => (c \in groups[r] <=> \E ru \in BoundIn(rooms, c) : ru[1] = r)

(* C15: in every reachable state the records of one room's history carry    *)
(* pairwise distinct messageId values, the clock being allowed to stay      *)
(* equal across consecutive events of one connection.                       *)
C15_MessageIdsUnique ==
    \A r \in DOMAIN rooms :
        \A i, j \in 1..Len(rooms[r].messages) :
            i # j => rooms[r].messages[i].messageId # rooms[r].messages[j].messageId

(* C16: for every event and every room in the registry both before and     *)
(* after it, the history after the event is the history before it followed  *)
(* by zero or one new record.                                               *)
C16_HistoryAppendOnly ==
    [][\A r \in DOMAIN rooms \cap DOMAIN rooms' :
          LET before == rooms[r].messages
              after == rooms'[r].messages
          IN  \/ after = before
              \/ /\ Len(after) = Len(before) + 1
                 /\ SubSeq(after, 1, Len(before)) = before]_vars

\* a chat record was just appended to a history that held two records
C16_Witness ==
    /\ ev.kind = "send_message"
    /\ Len(outbox) = 1
    /\ Len(rooms[resolve(ev.roomId)].messages) = 3
    /\ rooms[resolve(ev.roomId)].messages[3] = outbox[1].payload

\* The departure of connection c, holding username u, from room r emitted
\* the 'left the chat' record (to c too when toLeaver) and then the list of
\* the remaining members, to their connections only.
DepartureBroadcasts(c, r, u, toLeaver) ==
    LET remaining == {e \in ObjectValues(rooms[r].users) : e.username # u}
    IN  /\ EventNames(outbox') = <<"system_message", "user_list">>
        /\ IsSystem(outbox'[1].payload)
        /\ outbox'[1].payload.message = u \o LeftText
        /\ r \in DOMAIN rooms'
              => rooms'[r].messages = Append(rooms[r].messages, outbox'[1].payload)
        /\ (c \in outbox'[1].to) <=> toLeaver
        /\ {e.socketId : e \in remaining} \ {c} \subseteq outbox'[1].to
        /\ outbox'[2].to \subseteq {e.socketId : e \in remaining}
        /\ c \notin outbox'[2].to
        /\ outbox'[2].payload = remaining
        /\ \A e \in outbox'[2].payload : e.socketId # c

(* C17: an effective leave_room appends the 'left the chat' record and      *)
(* delivers it to the room including the leaving connection, then sends the *)
(* user_list only to the remaining members, without the leaver; a           *)
(* disconnect of a connection with a session appends the same record,       *)
(* delivers it to the other members only, then sends the same user_list.    *)
C17_DepartureBroadcasts ==
    [][/\ (/\ ev'.kind = "leave_room"
           /\ ev'.socket \in DOMAIN socketToUserMap
           /\ resolve(ev'.roomId) \in DOMAIN rooms
           /\ socketToUserMap[ev'.socket].username
                 \in DOMAIN rooms[resolve(ev'.roomId)].users)
          => DepartureBroadcasts(ev'.socket, resolve(ev'.roomId),
                                 socketToUserMap[ev'.socket].username, TRUE)
       /\ (/\ ev'.kind = "disconnect"
           /\ ev'.socket \in DOMAIN socketToUserMap
           /\ socketToUserMap[ev'.socket].room \in DOMAIN rooms
           /\ socketToUserMap[ev'.socket].username
                 \in DOMAIN rooms[socketToUserMap[ev'.socket].room].users)
          => DepartureBroadcasts(ev'.socket, socketToUserMap[ev'.socket].room,
                                 socketToUserMap[ev'.socket].username, FALSE)]_vars

(* C18: an accepted join_room emits, in this order, chat_history to the     *)
(* joiner, user_list to the room's connections (joiner included) listing    *)
(* exactly the room's members after the insertion, the join system_message  *)
(* to the room (joiner included), and join_success to the joiner; it emits  *)
(* no join_error.                                                           *)
C18_JoinEventOrder ==
    [][(/\ ev'.kind = "join_room"
        /\ validateUsername(standardize(ev'.username)) = null
        /\ ~(/\ resolve(ev'.roomId) \in DOMAIN rooms
             /\ standardize(ev'.username) \in DOMAIN rooms[resolve(ev'.roomId)].users))
          => LET room == resolve(ev'.roomId)
                 c == ev'.socket
                 std == standardize(ev'.username)
                 before == IF room \in DOMAIN rooms
                           THEN ObjectValues(rooms[room].users) ELSE {}
             IN  /\ EventNames(outbox') = JoinEvents
                 /\ outbox'[1].to = {c}
                 /\ outbox'[2].to = groups[room] \cup {c}
                 /\ outbox'[2].payload = before \cup {[socketId |-> c, username |-> std]}
                 /\ outbox'[2].payload = ObjectValues(rooms'[room].users)
                 /\ outbox'[3].to = groups[room] \cup {c}
                 /\ IsSystem(outbox'[3].payload)
                 /\ outbox'[3].payload.message = ev'.username \o JoinedText
                 /\ outbox'[4].to = {c}]_vars

\* a second connection just joined a room: both connections got the list of
\* the two members and the join message
C18_Witness ==
    /\ JoinedNow
    /\ outbox[2].to = Conns
    /\ Cardinality(outbox[2].payload) = 2
    /\ {e.socketId : e \in outbox[2].payload} = Conns
    /\ outbox[3].to = Conns

(* C19: typing changes no state; it emits nothing unless the connection has *)
(* a reverse-index entry and the resolved room is in the registry, and then *)
(* it emits one user_typing, carrying the sender's connection identity and  *)
(* session username, to the room's transport group without the sender.      *)
C19_TypingNotice ==
    [][ev'.kind = "typing"
          => LET room == resolve(ev'.roomId)
                 c == ev'.socket
             IN  /\ rooms' = rooms
                 /\ socketToUserMap' = socketToUserMap
                 /\ groups' = groups
                 /\ sockets' = sockets
                 /\ crashed' = crashed
                 /\ IF c \in DOMAIN socketToUserMap /\ room \in DOMAIN rooms
                    THEN /\ Len(outbox') = 1
                         /\ outbox'[1].event = "user_typing"
                         /\ outbox'[1].to = groups[room] \ {c}
                         /\ outbox'[1].payload =
                               [socketId |-> c,
                                username |-> socketToUserMap[c].username]
                    ELSE outbox' = <<>>]_vars

\* a member of a room just typed and the other connection of the room was told
C19_Witness ==
    /\ ev.kind = "typing"
    /\ Len(outbox) = 1
    /\ outbox[1].to # {}
    /\ ev.socket \in groups[resolve(ev.roomId)]
    /\ socketToUserMap[ev.socket].room = resolve(ev.roomId)

(* C20: only an accepted join_room adds a room to the registry; check_room  *)
(* changes no state and replies true exactly when the resolved room is in   *)
(* the registry with at least one member.                                   *)
C20_RoomsCreatedByJoinOnly ==
    [][/\ ~(DOMAIN rooms' \subseteq DOMAIN rooms)
            => (ev'.kind = "join_room" /\ EventNames(outbox') = JoinEvents)
       /\ ev'.kind = "check_room"
            => LET room == resolve(ev'.roomId)
               IN  /\ rooms' = rooms
                   /\ socketToUserMap' = socketToUserMap
                   /\ groups' = groups
                   /\ sockets' = sockets
                   /\ now' = now
                   /\ crashed' = crashed
                   /\ Len(outbox') = 1
                   /\ outbox'[1].event = "callback"
                   /\ outbox'[1].to = {ev'.socket}
                   /\ (outbox'[1].payload = "true")
                        <=> (room \in DOMAIN rooms /\ DOMAIN rooms[room].users # {})]_vars

\* check_room on room team was just answered true
C20_Witness ==
    /\ ev.kind = "check_room"
    /\ resolve(ev.roomId) = "team"
    /\ outbox[1].payload = "true"
    /\ "team" \in DOMAIN rooms

====
